---- MODULE Spec2Model ----
(***************************************************************************)
(* Model of Daily_WeatherNONinf.py: the daily scrape of the BTAC weather   *)
(* stations (get_btac_data), the mapping of the station records onto the   *)
(* six target locations (process_data, get_prophix_date) and the append    *)
(* to the history table (main).                                            *)
(*                                                                         *)
(* Python values are tagged records (PyNone, PyInt, PyStr); a Python str   *)
(* is a sequence of one-character strings, so that lower() and the `in`    *)
(* substring test are computed character by character.  A dict is a        *)
(* function from its keys to its values; an absent key is a key outside    *)
(* the DOMAIN.                                                             *)
(***************************************************************************)
EXTENDS Integers, Sequences, FiniteSets, TLC

VARIABLES
    pc,          \* position of the run: the next step of main (or of the function under check)
    runs,        \* number of runs of main started so far
    now,         \* datetime.now() of the current run
    data,        \* main: data (the payload get_btac_data returned)
    date_obj,    \* main: date_obj (yesterday), or the argument of get_prophix_date
    df_new,      \* main: df_new, the rows process_data returned
    ret,         \* return value of get_prophix_date
    fileExists,  \* os.path.isfile(CSV_FILE_PATH)
    table,       \* lines of BTAC_History.csv
    table0,      \* lines of BTAC_History.csv when the current run started
    log,         \* lines of scrape_log.txt
    logWritable, \* whether scrape_log.txt can be appended to during the current run
    console      \* what the current process has printed

vars == <<pc, runs, now, data, date_obj, df_new, ret, fileExists, table, table0,
         log, logWritable, console>>

(***************************************************************************)
(* Bounds of the model.                                                    *)
(***************************************************************************)
YearLo == 2023
NumYears == 4
MaxStations == 2
MaxRuns == 2

Years == YearLo .. (YearLo + NumYears - 1)

(***************************************************************************)
(* Python values.                                                          *)
(***************************************************************************)
PyNone == [t |-> "NoneType"]
PyInt(n) == [t |-> "int", v |-> n]
PyStr(s) == [t |-> "str", v |-> s]
EmptyStr == PyStr(<<>>)
EmptyDict == <<>>

\* bool(x) of a scalar value
Truthy(x) ==
    CASE x.t = "NoneType" -> FALSE
      [] x.t = "int" -> x.v # 0
      [] x.t = "str" -> Len(x.v) > 0

\* a or b
PyOr(a, b) == IF Truthy(a) THEN a ELSE b

\* d.get(key) and d.get(key, default) of a dict d
Get(d, key) == IF key \in DOMAIN d THEN d[key] ELSE PyNone
GetDefault(d, key, default) == IF key \in DOMAIN d THEN d[key] ELSE default

Digits == <<"0", "1", "2", "3", "4", "5", "6", "7", "8", "9">>

RECURSIVE IntToChars(_)
\* str(n) of an int n >= 0
IntToChars(n) ==
    IF n < 10 THEN <<Digits[n + 1]>>
    ELSE IntToChars(n \div 10) \o <<Digits[(n % 10) + 1]>>

RECURSIVE ZeroPad(_, _)
\* the format specs :03d, %m, %d: zero-padding on the left up to a width
ZeroPad(chars, width) ==
    IF Len(chars) >= width THEN chars ELSE ZeroPad(<<"0">> \o chars, width)

\* str(x)
Str(x) ==
    CASE x.t = "NoneType" -> <<"N", "o", "n", "e">>
      [] x.t = "int" -> IF x.v < 0 THEN <<"-">> \o IntToChars(-x.v) ELSE IntToChars(x.v)
      [] x.t = "str" -> x.v

UpperChars == <<"A", "B", "C", "D", "E", "F", "G", "H", "I", "J", "K", "L", "M",
                "N", "O", "P", "Q", "R", "S", "T", "U", "V", "W", "X", "Y", "Z">>
LowerChars == <<"a", "b", "c", "d", "e", "f", "g", "h", "i", "j", "k", "l", "m",
                "n", "o", "p", "q", "r", "s", "t", "u", "v", "w", "x", "y", "z">>

\* the lower-case letter of every upper-case letter
LowerTable ==
    [c \in {UpperChars[i] : i \in 1 .. Len(UpperChars)} |->
        LowerChars[CHOOSE i \in 1 .. Len(UpperChars) : UpperChars[i] = c]]

LowerChar(c) == IF c \in DOMAIN LowerTable THEN LowerTable[c] ELSE c

\* s.lower()
Lower(s) == [i \in 1 .. Len(s) |-> LowerChar(s[i])]

\* k in s, for two strs
Contains(s, k) ==
    \E i \in 0 .. (Len(s) - Len(k)) : \A j \in 1 .. Len(k) : s[i + j] = k[j]

(***************************************************************************)
(* datetime: the proleptic Gregorian calendar.                             *)
(***************************************************************************)
IsLeap(y) == (y % 4 = 0) /\ ((y % 100 # 0) \/ (y % 400 = 0))

DaysInMonth(y, m) ==
    IF m = 2 THEN (IF IsLeap(y) THEN 29 ELSE 28)
    ELSE IF m \in {4, 6, 9, 11} THEN 30 ELSE 31

DateTime(y, m, d, h) == [year |-> y, month |-> m, day |-> d, hour |-> h]

RECURSIVE DaysBeforeMonth(_, _)
DaysBeforeMonth(y, m) ==
    IF m = 1 THEN 0 ELSE DaysBeforeMonth(y, m - 1) + DaysInMonth(y, m - 1)

DaysBeforeYear(y) ==
    (y - 1) * 365 + ((y - 1) \div 4) - ((y - 1) \div 100) + ((y - 1) \div 400)

\* date.toordinal()
ToOrdinal(dt) == DaysBeforeYear(dt.year) + DaysBeforeMonth(dt.year, dt.month) + dt.day

\* (a - b).days of two datetimes: the whole days of the difference, floored
DaysBetween(a, b) ==
    (((ToOrdinal(a) - ToOrdinal(b)) * 24) + (a.hour - b.hour)) \div 24

\* dt - timedelta(days=1)
MinusOneDay(dt) ==
    IF dt.day > 1 THEN [dt EXCEPT !.day = dt.day - 1]
    ELSE IF dt.month > 1
         THEN [dt EXCEPT !.month = dt.month - 1,
                         !.day = DaysInMonth(dt.year, dt.month - 1)]
         ELSE [dt EXCEPT !.year = dt.year - 1, !.month = 12, !.day = 31]

\* dt.strftime('%Y-%m-%d')
StrfDate(dt) ==
    IntToChars(dt.year) \o <<"-">> \o ZeroPad(IntToChars(dt.month), 2)
        \o <<"-">> \o ZeroPad(IntToChars(dt.day), 2)

(***************************************************************************)
(* get_prophix_date                                                        *)
(***************************************************************************)
start_year(dt) == IF dt.month >= 5 THEN dt.year ELSE dt.year - 1

fiscal_start(dt) == DateTime(start_year(dt), 5, 1, 0)

day_num_zero_based(dt) == DaysBetween(dt, fiscal_start(dt))

day_num(dt) == DaysBetween(dt, fiscal_start(dt)) + 1

get_prophix_date(dt) ==
    IntToChars(start_year(dt)) \o <<"D">> \o ZeroPad(IntToChars(day_num(dt)), 3)

(***************************************************************************)
(* Text: messages.  A printed or logged message is its fixed text (kind)   *)
(* and the text interpolated into it (what).                               *)
(***************************************************************************)
Msg(kind, what) == [kind |-> kind, what |-> what]

(***************************************************************************)
(* process_data: the targets, their keywords and the output columns.       *)
(***************************************************************************)
kw_summit == <<"s", "u", "m", "m", "i", "t">>
kw_rbowl == <<"r", "b", "o", "w", "l">>
kw_rendezvous_bowl == <<"r", "e", "n", "d", "e", "z", "v", "o", "u", "s", " ", "b", "o", "w", "l">>
kw_mid_mtn == <<"m", "i", "d", " ", "m", "t", "n">>
kw_mid_mountain == <<"m", "i", "d", " ", "m", "o", "u", "n", "t", "a", "i", "n">>
kw_buff == <<"b", "u", "f", "f">>
kw_base == <<"b", "a", "s", "e">>
kw_raymer_temp == <<"r", "a", "y", "m", "e", "r", " ", "9", ",", "3", "6", "0">>
kw_raymer_wind == <<"r", "a", "y", "m", "e", "r", " ", "w", "i", "n", "d">>

Summit == <<"S", "u", "m", "m", "i", "t">>
RV_Bowl == <<"R", "V", "_", "B", "o", "w", "l">>
Raymer == <<"R", "a", "y", "m", "e", "r">>
MidMtn == <<"M", "i", "d", "M", "t", "n">>
Buff == <<"B", "u", "f", "f">>
Base == <<"B", "a", "s", "e">>

Target(name, keywords, is_merged) ==
    [name |-> name, keywords |-> keywords, is_merged |-> is_merged]

target_defs ==
    << Target(Summit, <<kw_summit>>, FALSE),
       Target(RV_Bowl, <<kw_rbowl, kw_rendezvous_bowl>>, FALSE),
       Target(Raymer, <<>>, TRUE),
       Target(MidMtn, <<kw_mid_mtn, kw_mid_mountain>>, FALSE),
       Target(Buff, <<kw_buff>>, FALSE),
       Target(Base, <<kw_base>>, FALSE) >>

ProphixDate == <<"P", "r", "o", "p", "h", "i", "x", "D", "a", "t", "e">>
Date == <<"D", "a", "t", "e">>
Location == <<"L", "o", "c", "a", "t", "i", "o", "n">>
NewSno == <<"N", "e", "w", "S", "n", "o">>
SnoDepth == <<"S", "n", "o", "D", "e", "p", "t", "h">>
SnoFallTot == <<"S", "n", "o", "F", "a", "l", "l", " ", "T", "o", "t">>
MaxTemp == <<"M", "a", "x", " ", "T", "e", "m", "p">>
MinTemp == <<"M", "i", "n", " ", "T", "e", "m", "p">>
AvgWind == <<"A", "v", "g", "W", "i", "n", "d">>
MaxGust == <<"M", "a", "x", "G", "u", "s", "t">>
TotalWind == <<"T", "o", "t", "a", "l", "W", "i", "n", "d">>

cols == <<ProphixDate, Date, Location, NewSno, SnoDepth, SnoFallTot,
          MaxTemp, MinTemp, AvgWind, MaxGust, TotalWind>>

(***************************************************************************)
(* process_data: station lookup.                                           *)
(***************************************************************************)
PyDict(d) == [t |-> "dict", v |-> d]

\* bool(x) of None or a dict
TruthyObj(x) == IF x.t = "NoneType" THEN FALSE ELSE DOMAIN x.v # {}

\* str(row.get('display_name', '')).lower()
d_name(row) == Lower(Str(GetDefault(row, "display_name", EmptyStr)))

\* any(k in name for k in keywords)
AnyKeyword(name, keywords) ==
    \E j \in 1 .. Len(keywords) : Contains(name, keywords[j])

RECURSIVE NextFrom(_, _, _)
NextFrom(rows_data, keyword, i) ==
    IF i > Len(rows_data) THEN EmptyDict
    ELSE IF Contains(d_name(rows_data[i]), keyword) THEN rows_data[i]
    ELSE NextFrom(rows_data, keyword, i + 1)

\* next((r for r in rows_data if keyword in str(r.get('display_name','')).lower()), {})
NextMatch(rows_data, keyword) == NextFrom(rows_data, keyword, 1)

raymer_temp_node(rows_data) == NextMatch(rows_data, kw_raymer_temp)
raymer_wind_node(rows_data) == NextMatch(rows_data, kw_raymer_wind)

raymer_merged(rows_data) ==
    LET temp == raymer_temp_node(rows_data)
        wind == raymer_wind_node(rows_data)
    IN  ("display_name" :> PyStr(Raymer))
        @@ ("maxtemp" :> Get(temp, "maxtemp"))
        @@ ("mintemp" :> Get(temp, "mintemp"))
        @@ ("avewindspd" :> Get(wind, "avewindspd"))
        @@ ("maxgust" :> Get(wind, "maxgust"))
        @@ ("ttlwindmiles" :> Get(wind, "ttlwindmiles"))
        @@ ("newsnow" :> PyOr(Get(temp, "newsnow"), Get(wind, "newsnow")))
        @@ ("depth" :> PyOr(Get(temp, "depth"), Get(wind, "depth")))
        @@ ("ttlsnowfall" :> PyOr(Get(temp, "ttlsnowfall"), Get(wind, "ttlsnowfall")))

RECURSIVE ScanLast(_, _, _, _)
ScanLast(rows_data, keywords, i, found) ==
    IF i > Len(rows_data) THEN found
    ELSE IF AnyKeyword(d_name(rows_data[i]), keywords)
         THEN ScanLast(rows_data, keywords, i + 1, PyDict(rows_data[i]))
         ELSE ScanLast(rows_data, keywords, i + 1, found)

\* the scan without its break: the last matching row wins
FindStationLast(rows_data, keywords) == ScanLast(rows_data, keywords, 1, PyNone)

\* the scan assigning found_station before the keyword test: a row is always found
FindStationLeak(rows_data, keywords) ==
    IF ScanLast(rows_data, keywords, 1, PyNone) # PyNone
    THEN ScanLast(rows_data, keywords, 1, PyNone)
    ELSE IF Len(rows_data) > 0 THEN PyDict(rows_data[Len(rows_data)]) ELSE PyNone

RECURSIVE ScanFrom(_, _, _)
ScanFrom(rows_data, keywords, i) ==
    IF i > Len(rows_data) THEN PyNone
    ELSE IF AnyKeyword(d_name(rows_data[i]), keywords) THEN PyDict(rows_data[i])
    ELSE ScanFrom(rows_data, keywords, i + 1)

\* the inner loop over rows_data: found_station, or None
FindStation(rows_data, keywords) == ScanFrom(rows_data, keywords, 1)

\* the synthesized Raymer record emitted only when a Raymer station was found
merged_station_if_found(rows_data) ==
    IF DOMAIN raymer_temp_node(rows_data) = {} /\ DOMAIN raymer_wind_node(rows_data) = {}
    THEN PyNone
    ELSE PyDict(raymer_merged(rows_data))

\* found_station = raymer_merged
merged_station(rows_data) == PyDict(raymer_merged(rows_data))

new_row(found_station, target_name, prophix_date, dt) ==
    (ProphixDate :> PyStr(prophix_date))
    @@ (Date :> PyStr(StrfDate(dt)))
    @@ (Location :> PyStr(target_name))
    @@ (NewSno :> GetDefault(found_station, "newsnow", EmptyStr))
    @@ (SnoDepth :> GetDefault(found_station, "depth", EmptyStr))
    @@ (SnoFallTot :> GetDefault(found_station, "ttlsnowfall", EmptyStr))
    @@ (MaxTemp :> GetDefault(found_station, "maxtemp", EmptyStr))
    @@ (MinTemp :> GetDefault(found_station, "mintemp", EmptyStr))
    @@ (AvgWind :> GetDefault(found_station, "avewindspd", EmptyStr))
    @@ (MaxGust :> GetDefault(found_station, "maxgust", EmptyStr))
    @@ (TotalWind :> GetDefault(found_station, "ttlwindmiles", EmptyStr))

\* one iteration of the loop over target_defs: the station of target i
found_for(rows_data, i) ==
    IF target_defs[i].is_merged /\ target_defs[i].name = Raymer
    THEN merged_station(rows_data)
    ELSE FindStation(rows_data, target_defs[i].keywords)

Result(df, out, raised) == [df |-> df, out |-> out, raised |-> raised]

RECURSIVE ExtractPrepend(_, _, _, _)
\* the loop with extracted_rows.insert(0, new_row) in place of append
ExtractPrepend(rows_data, prophix_date, dt, n) ==
    IF n = 0 THEN Result(<<>>, <<>>, "")
    ELSE LET prev == ExtractPrepend(rows_data, prophix_date, dt, n - 1)
             found == found_for(rows_data, n)
         IN  IF TruthyObj(found)
             THEN Result(<<new_row(found.v, target_defs[n].name, prophix_date, dt)>> \o prev.df,
                         prev.out, "")
             ELSE Result(prev.df, Append(prev.out, Msg("Warning: not found", target_defs[n].name)), "")

RECURSIVE ExtractRows(_, _, _, _)
\* the loop over the first n entries of target_defs: extracted_rows and the
\* warnings printed
ExtractRows(rows_data, prophix_date, dt, n) ==
    IF n = 0 THEN Result(<<>>, <<>>, "")
    ELSE LET prev == ExtractRows(rows_data, prophix_date, dt, n - 1)
             found == found_for(rows_data, n)
         IN  IF TruthyObj(found)
             THEN Result(Append(prev.df, new_row(found.v, target_defs[n].name, prophix_date, dt)),
                         prev.out, "")
             ELSE Result(prev.df, Append(prev.out, Msg("Warning: not found", target_defs[n].name)), "")

\* `not json_payload or 'data' not in json_payload` without its first operand:
\* `in` raises TypeError on None
payload_check_unguarded(json_payload) ==
    IF json_payload.t # "dict" THEN "TypeError"
    ELSE IF "data" \notin DOMAIN json_payload.v THEN "invalid"
    ELSE "ok"

\* the test `not json_payload or 'data' not in json_payload`, left to right
payload_check(json_payload) ==
    IF ~TruthyObj(json_payload) THEN "invalid"
    ELSE IF json_payload.t # "dict" THEN "TypeError"
    ELSE IF "data" \notin DOMAIN json_payload.v THEN "invalid"
    ELSE "ok"

process_data(json_payload, dt) ==
    LET check == payload_check(json_payload)
    IN  IF check = "TypeError" THEN Result(<<>>, <<>>, "TypeError")
        ELSE IF check = "invalid"
        THEN Result(<<>>, <<Msg("Invalid JSON structure (missing 'data' key).", <<>>)>>, "")
        ELSE LET rows_data == json_payload.v["data"]
                 prophix_date == get_prophix_date(dt)
                 loop == ExtractRows(rows_data, prophix_date, dt, Len(target_defs))
             IN  Result(loop.df,
                        <<Msg("Scanning stations for Prophix Date",
                              IntToChars(Len(rows_data)) \o <<" ">> \o prophix_date)>>
                            \o loop.out,
                        "")

(***************************************************************************)
(* write_log, and the steps of main.                                       *)
(***************************************************************************)
IO(lg, out) == [log |-> lg, console |-> out]

\* print(message)
print(io, message) == IO(io.log, Append(io.console, message))

\* write_log(message): the line is appended to scrape_log.txt, or, when the
\* append raises (writable = FALSE), "Logging failed" is printed
write_log(io, message, writable) ==
    IF writable THEN IO(Append(io.log, message), io.console)
    ELSE IO(io.log, Append(io.console, Msg("Logging failed", <<>>)))

\* header=not file_exists, with the negation lost
to_csv_header_if_exists(file_exists) == file_exists

\* header=not file_exists
to_csv_header(file_exists) == ~file_exists

\* for c in cols: if c not in df_new.columns: df_new[c] = ''
fill_columns(df) ==
    [i \in 1 .. Len(df) |->
        [c \in {cols[j] : j \in 1 .. Len(cols)} |->
            IF c \in DOMAIN df[i] THEN df[i][c] ELSE EmptyStr]]

\* df_new = df_new[cols]: the cells of each row in the order of cols.  How
\* pandas renders a cell as text is outside this model: a line of the table
\* is the tuple of its cells.
csv_lines(df) == [i \in 1 .. Len(df) |-> [j \in 1 .. Len(cols) |-> df[i][cols[j]]]]

header_line == [j \in 1 .. Len(cols) |-> PyStr(cols[j])]

\* df_new.to_csv(CSV_FILE_PATH, mode='a', header=..., index=False)
to_csv(lines, df, header) ==
    lines \o (IF header THEN <<header_line>> ELSE <<>>) \o csv_lines(df)

(***************************************************************************)
(* Inputs: the clock, the stations and the payloads.                       *)
(***************************************************************************)
NameSummit == <<"S", "u", "m", "m", "i", "t">>
NameRendezvous == <<"R", "E", "N", "D", "E", "Z", "V", "O", "U", "S", " ", "B", "O", "W", "L", " ", "U", "p", "p", "e", "r">>
NameRaymerTemp == <<"R", "a", "y", "m", "e", "r", " ", "9", ",", "3", "6", "0">>
NameRaymerWind == <<"R", "a", "y", "m", "e", "r", " ", "W", "i", "n", "d">>
NameMidMtn == <<"M", "i", "d", " ", "M", "t", "n">>
NameBuff == <<"B", "u", "f", "f", "a", "l", "o", " ", "B", "o", "w", "l">>
NameBase == <<"B", "a", "s", "e">>
NameSummitBase == <<"S", "u", "m", "m", "i", "t", " ", "B", "a", "s", "e">>

MetricKeys == <<"newsnow", "depth", "ttlsnowfall", "maxtemp", "mintemp",
                "avewindspd", "maxgust", "ttlwindmiles">>

\* every metric present, each with a value of its own
FullProfile(base) ==
    [k \in {MetricKeys[j] : j \in 1 .. Len(MetricKeys)} |->
        PyInt(base + (CHOOSE j \in 1 .. Len(MetricKeys) : MetricKeys[j] = k))]

\* the values Python takes for false, and the wind fields absent
FalsyProfile ==
    ("newsnow" :> PyInt(0)) @@ ("depth" :> EmptyStr) @@ ("ttlsnowfall" :> PyNone)
    @@ ("maxtemp" :> PyInt(0)) @@ ("mintemp" :> PyStr(<<"3">>))

Profiles == {EmptyDict, FalsyProfile, FullProfile(0), FullProfile(10)}

Station(name, profile) == ("display_name" :> name) @@ profile

DisplayNames ==
    {PyStr(NameSummit), PyStr(NameRendezvous), PyStr(NameRaymerTemp), PyStr(NameRaymerWind)}

\* station records: a display name and a set of metrics; a name matching two
\* targets; a null name; no name at all
StationPool ==
    {Station(n, f) : n \in DisplayNames, f \in Profiles}
    \cup {Station(PyStr(NameSummitBase), FullProfile(10)), Station(PyNone, FalsyProfile),
          FullProfile(0), EmptyDict}

SeqsUpTo(S, n) == UNION {[1 .. k -> S] : k \in 0 .. n}

\* one day's report of all seven stations
FullPayload ==
    << Station(PyStr(NameSummit), FullProfile(0)),
       Station(PyStr(NameRendezvous), FullProfile(10)),
       Station(PyStr(NameRaymerTemp), FalsyProfile),
       Station(PyStr(NameRaymerWind), FullProfile(0)),
       Station(PyStr(NameMidMtn), FullProfile(10)),
       Station(PyStr(NameBuff), FullProfile(0)),
       Station(PyStr(NameBase), FullProfile(10)) >>

Reverse(s) == [i \in 1 .. Len(s) |-> s[Len(s) + 1 - i]]

RECURSIVE Pick(_, _, _)
\* the stations of s at the positions in keep, in the order of s
Pick(s, keep, i) ==
    IF i > Len(s) THEN <<>>
    ELSE (IF i \in keep THEN <<s[i]>> ELSE <<>>) \o Pick(s, keep, i + 1)

PartialPayloads ==
    {Pick(FullPayload, keep, 1) : keep \in SUBSET (1 .. Len(FullPayload))}
    \cup {Pick(Reverse(FullPayload), keep, 1) : keep \in SUBSET (1 .. Len(FullPayload))}

StationLists == SeqsUpTo(StationPool, MaxStations) \cup PartialPayloads

\* response.json(): null, or an object with or without the key `data`
NoDataPayloads ==
    {PyNone, PyDict(EmptyDict), PyDict("error" :> PyStr(<<"n", "o">>))}

MapperPayloads == NoDataPayloads \cup {PyDict("data" :> s) : s \in StationLists}

MainPayloads ==
    NoDataPayloads
    \cup {PyDict("data" :> <<>>),
          PyDict("data" :> <<Station(PyStr(NameSummit), FullProfile(0))>>),
          PyDict("data" :> <<Station(PyStr(NameRaymerWind), FullProfile(0)),
                             Station(PyStr(NameRaymerTemp), FalsyProfile)>>),
          PyDict("data" :> FullPayload)}

MapperDates == {DateTime(2025, 12, 6, 5), DateTime(2026, 4, 30, 5)}

NowSet == {DateTime(2026, 5, 1, 5), DateTime(2024, 3, 1, 5)}

Hours == {0, 5, 23}

AllDateTimes ==
    {DateTime(y, m, d, h) : y \in Years, m \in 1 .. 12, d \in 1 .. 31, h \in Hours}

\* the datetimes of the calendar in the years of the model
DateTimes == {dt \in AllDateTimes : dt.day <= DaysInMonth(dt.year, dt.month)}

(***************************************************************************)
(* main, one run after the other, starting with no table and no log.       *)
(***************************************************************************)
Init ==
    /\ pc = "idle"
    /\ runs = 0
    /\ now = PyNone
    /\ data = PyNone
    /\ date_obj = PyNone
    /\ df_new = <<>>
    /\ ret = <<>>
    /\ fileExists = FALSE
    /\ table = <<>>
    /\ table0 = <<>>
    /\ log = <<>>
    /\ logWritable = TRUE
    /\ console = <<>>

\* a new process: makedirs is a no-op (CSV_FILE_PATH has no directory), then
\* write_log("Starting Daily Scrape...")
MainStart ==
    /\ pc \in {"idle", "done", "crashed"}
    /\ runs < MaxRuns
    /\ \E n \in NowSet, w \in BOOLEAN :
          LET io == write_log(IO(log, <<>>), Msg("Starting Daily Scrape...", <<>>), w)
          IN  /\ now' = n
              /\ logWritable' = w
              /\ log' = io.log
              /\ console' = io.console
    /\ runs' = runs + 1
    /\ table0' = table
    /\ data' = PyNone
    /\ date_obj' = PyNone
    /\ df_new' = <<>>
    /\ pc' = "get_btac_data"
    /\ UNCHANGED <<ret, fileExists, table>>

\* get_btac_data: the request succeeds and the body parses
GetBtacDataOk ==
    /\ pc = "get_btac_data"
    /\ \E p \in MainPayloads :
          LET yesterday == MinusOneDay(now)
          IN  /\ console' = Append(console, Msg("Fetching data for", StrfDate(yesterday)))
              /\ data' = p
              /\ date_obj' = yesterday
    /\ pc' = "got"
    /\ UNCHANGED <<runs, now, df_new, ret, fileExists, table, table0, log, logWritable>>

\* get_btac_data: requests.get, raise_for_status or response.json() raises
GetBtacDataError ==
    /\ pc = "get_btac_data"
    /\ LET yesterday == MinusOneDay(now)
           msg == Msg("Error fetching data", <<>>)
           io == write_log(print(print(IO(log, console),
                                       Msg("Fetching data for", StrfDate(yesterday))),
                                 msg),
                           msg, logWritable)
       IN  /\ log' = io.log
           /\ console' = io.console
    /\ data' = PyNone
    /\ date_obj' = PyNone
    /\ pc' = "got"
    /\ UNCHANGED <<runs, now, df_new, ret, fileExists, table, table0, logWritable>>

\* main: `if data:` taken, process_data, and the branch on df_new.empty
MainProcess ==
    /\ pc = "got"
    /\ TruthyObj(data)
    /\ LET r == process_data(data, date_obj)
           io == IO(log, console \o r.out)
           msg == Msg("No data rows matched the target stations.", <<>>)
           none == write_log(print(io, msg), msg, logWritable)
       IN  IF r.raised # ""
           THEN /\ pc' = "crashed"
                /\ console' = Append(io.console, Msg("Traceback", <<>>))
                /\ UNCHANGED <<df_new, log>>
           ELSE /\ df_new' = r.df
                /\ IF Len(r.df) > 0
                   THEN /\ pc' = "to_csv"
                        /\ console' = io.console
                        /\ UNCHANGED log
                   ELSE /\ pc' = "done"
                        /\ console' = none.console
                        /\ log' = none.log
    /\ UNCHANGED <<runs, now, data, date_obj, ret, fileExists, table, table0, logWritable>>

\* main: `if data:` not taken
MainApiFailed ==
    /\ pc = "got"
    /\ ~TruthyObj(data)
    /\ LET io == write_log(IO(log, console),
                           Msg("API request failed (Check internet or URL).", <<>>),
                           logWritable)
       IN  /\ log' = io.log
           /\ console' = io.console
    /\ pc' = "done"
    /\ UNCHANGED <<runs, now, data, date_obj, df_new, ret, fileExists, table, table0,
                   logWritable>>

\* main: the columns are filled and ordered and to_csv appends
MainWriteOk ==
    /\ pc = "to_csv"
    /\ LET df == fill_columns(df_new)
           file_exists == fileExists
           msg == Msg("SUCCESS: Appended rows for",
                      IntToChars(Len(df)) \o <<" ">> \o StrfDate(date_obj))
           io == write_log(print(IO(log, console), msg), msg, logWritable)
       IN  /\ df_new' = df
           /\ table' = to_csv(table, df, to_csv_header(file_exists))
           /\ log' = io.log
           /\ console' = io.console
    /\ fileExists' = TRUE
    /\ pc' = "done"
    /\ UNCHANGED <<runs, now, data, date_obj, ret, table0, logWritable>>

\* main: to_csv raises PermissionError and nothing is written
MainWritePermissionError ==
    /\ pc = "to_csv"
    /\ LET msg == Msg("ERROR: Could not write. Is the Excel file open?", <<>>)
           io == write_log(print(IO(log, console), msg), msg, logWritable)
       IN  /\ df_new' = fill_columns(df_new)
           /\ log' = io.log
           /\ console' = io.console
    /\ pc' = "done"
    /\ UNCHANGED <<runs, now, data, date_obj, ret, fileExists, table, table0, logWritable>>

Next ==
    \/ MainStart
    \/ GetBtacDataOk
    \/ GetBtacDataError
    \/ MainProcess
    \/ MainApiFailed
    \/ MainWriteOk
    \/ MainWritePermissionError

Spec == Init /\ [][Next]_vars

(***************************************************************************)
(* process_data alone, on every payload and date of the input sets.        *)
(***************************************************************************)
InitMapper ==
    /\ pc = "process_data"
    /\ data \in MapperPayloads
    /\ date_obj \in MapperDates
    /\ runs = 0
    /\ now = PyNone
    /\ df_new = <<>>
    /\ ret = <<>>
    /\ fileExists = FALSE
    /\ table = <<>>
    /\ table0 = <<>>
    /\ log = <<>>
    /\ logWritable = TRUE
    /\ console = <<>>

ProcessDataCall ==
    /\ pc = "process_data"
    /\ LET r == process_data(data, date_obj)
       IN  /\ df_new' = r.df
           /\ console' = r.out
           /\ pc' = IF r.raised # "" THEN "raised" ELSE "returned"
    /\ UNCHANGED <<runs, now, data, date_obj, ret, fileExists, table, table0, log,
                   logWritable>>

NextMapper == ProcessDataCall

SpecMapper == InitMapper /\ [][NextMapper]_vars

(***************************************************************************)
(* get_prophix_date alone, on every datetime of the years of the model.    *)
(***************************************************************************)
InitDate ==
    /\ pc = "get_prophix_date"
    /\ date_obj \in DateTimes
    /\ runs = 0
    /\ now = PyNone
    /\ data = PyNone
    /\ df_new = <<>>
    /\ ret = <<>>
    /\ fileExists = FALSE
    /\ table = <<>>
    /\ table0 = <<>>
    /\ log = <<>>
    /\ logWritable = TRUE
    /\ console = <<>>

GetProphixDateCall ==
    /\ pc = "get_prophix_date"
    /\ ret' = get_prophix_date(date_obj)
    /\ pc' = "returned"
    /\ UNCHANGED <<runs, now, data, date_obj, df_new, fileExists, table, table0, log,
                   logWritable, console>>

NextDate == GetProphixDateCall

SpecDate == InitDate /\ [][NextDate]_vars

(***************************************************************************)
(* Properties.  Helpers of the statements: parsing a number back from its  *)
(* digits, and counting the days of the calendar one by one.               *)
(***************************************************************************)
IsDigit(c) == \E i \in 1 .. Len(Digits) : Digits[i] = c

DigitValue(c) == (CHOOSE i \in 1 .. Len(Digits) : Digits[i] = c) - 1

RECURSIVE ParseInt(_)
ParseInt(chars) ==
    IF Len(chars) = 0 THEN 0
    ELSE 10 * ParseInt(SubSeq(chars, 1, Len(chars) - 1)) + DigitValue(chars[Len(chars)])

AllDigits(chars) == \A i \in 1 .. Len(chars) : IsDigit(chars[i])

\* a is an earlier calendar day than b
EarlierDay(a, b) ==
    \/ a.year < b.year
    \/ a.year = b.year /\ a.month < b.month
    \/ a.year = b.year /\ a.month = b.month /\ a.day < b.day

\* the calendar days of the fiscal period that begins on May 1 of year fy
FiscalPeriod(fy) ==
    {e \in [year : {fy, fy + 1}, month : 1 .. 12, day : 1 .. 31] :
        /\ e.day <= DaysInMonth(e.year, e.month)
        /\ (e.year = fy) => (e.month >= 5)
        /\ (e.year = fy + 1) => (e.month <= 4)}

FiscalYearOf(dt) ==
    IF dt.month > 5 \/ (dt.month = 5 /\ dt.day >= 1) THEN dt.year ELSE dt.year - 1

\* the days of the fiscal period before dt, counted one by one, plus 1
DayNumberOf(dt) ==
    Cardinality({e \in FiscalPeriod(FiscalYearOf(dt)) : EarlierDay(e, dt)}) + 1

\* C1: get_prophix_date(d) is "{fiscalYear}D{dayNumber:03d}": fiscalYear is the
\* year of d from May 1 on and the year before otherwise, dayNumber is the
\* number of calendar days from May 1 of fiscalYear to d, plus 1.  May 1 gives
\* D001, dayNumber is in 1..366, April 30 gives D365, or D366 exactly when the
\* fiscal period holds a February 29; 2026-05-01 gives 2026D001 and 2026-04-30
\* gives 2025D365.
C1_ProphixDate ==
    (pc = "returned") =>
        LET n == Len(ret)
            fy == FiscalYearOf(date_obj)
            dn == DayNumberOf(date_obj)
            year_part == SubSeq(ret, 1, n - 4)
            day_part == SubSeq(ret, n - 2, n)
        IN  /\ n >= 5
            /\ ret[n - 3] = "D"
            /\ AllDigits(year_part) /\ AllDigits(day_part)
            /\ year_part = IntToChars(fy)
            /\ ParseInt(year_part) = fy
            /\ ParseInt(day_part) = dn
            /\ dn \in 1 .. 366
            /\ (date_obj.month = 5 /\ date_obj.day = 1) => day_part = <<"0", "0", "1">>
            /\ (date_obj.month = 4 /\ date_obj.day = 30) =>
                  dn = IF \E e \in FiscalPeriod(fy) : e.month = 2 /\ e.day = 29
                       THEN 366 ELSE 365
            /\ (date_obj.year = 2026 /\ date_obj.month = 5 /\ date_obj.day = 1) =>
                  ret = <<"2", "0", "2", "6", "D", "0", "0", "1">>
            /\ (date_obj.year = 2026 /\ date_obj.month = 4 /\ date_obj.day = 30) =>
                  ret = <<"2", "0", "2", "5", "D", "3", "6", "5">>

\* C1 witness: April 30 of a fiscal period holding a February 29 has returned D366
C1_Witness ==
    /\ pc = "returned"
    /\ date_obj.year = 2024 /\ date_obj.month = 4 /\ date_obj.day = 30 /\ date_obj.hour = 23
    /\ ret = <<"2", "0", "2", "3", "D", "3", "6", "6">>

(***************************************************************************)
(* Statements about process_data: what the payload holds, said without     *)
(* the scan of the code.                                                   *)
(***************************************************************************)
HasData(p) == p.t = "dict" /\ "data" \in DOMAIN p.v

Stations == data.v["data"]

\* the display name of a station record, lower-cased, contains the keyword;
\* a record without a display name (or with a null one) contains nothing
NameContains(row, keyword) ==
    /\ "display_name" \in DOMAIN row
    /\ row["display_name"].t = "str"
    /\ Contains(Lower(row["display_name"].v), keyword)

\* the positions, in the payload, of the stations that match target i
Matching(st, i) ==
    {k \in 1 .. Len(st) :
        \E j \in 1 .. Len(target_defs[i].keywords) :
            NameContains(st[k], target_defs[i].keywords[j])}

Least(S) == CHOOSE k \in S : \A m \in S : k <= m

TargetIds == 1 .. Len(target_defs)
RaymerId == CHOOSE i \in TargetIds : target_defs[i].name = Raymer
OtherIds == TargetIds \ {RaymerId}

\* the rows of df_new for target i
RowsOf(df, i) == {k \in 1 .. Len(df) : df[k][Location] = PyStr(target_defs[i].name)}

\* the column of each metric and the payload key it is copied from
MetricSource ==
    << <<NewSno, "newsnow">>, <<SnoDepth, "depth">>, <<SnoFallTot, "ttlsnowfall">>,
       <<MaxTemp, "maxtemp">>, <<MinTemp, "mintemp">>, <<AvgWind, "avewindspd">>,
       <<MaxGust, "maxgust">>, <<TotalWind, "ttlwindmiles">> >>

Warned(out, i) ==
    \E k \in 1 .. Len(out) : out[k] = Msg("Warning: not found", target_defs[i].name)

\* C5: a target other than Raymer that no station matches gets no row and a
\* warning, the other targets still get their rows; when only Buff is
\* unmatched exactly 5 rows are emitted, all targets except Buff.
C5_MissingTarget ==
    (pc = "returned" /\ HasData(data)) =>
        /\ \A i \in OtherIds :
              IF Matching(Stations, i) = {}
              THEN RowsOf(df_new, i) = {} /\ Warned(console, i)
              ELSE RowsOf(df_new, i) # {} /\ ~Warned(console, i)
        /\ Len(df_new) = 1 + Cardinality({i \in OtherIds : Matching(Stations, i) # {}})
        /\ (\A i \in OtherIds : (Matching(Stations, i) = {}) <=> (target_defs[i].name = Buff))
              => /\ Len(df_new) = 5
                 /\ \A i \in TargetIds :
                       (RowsOf(df_new, i) = {}) <=> (target_defs[i].name = Buff)

\* C5 witness: every target but Buff is matched, 5 rows and the warning for Buff
C5_Witness ==
    /\ pc = "returned" /\ HasData(data)
    /\ \A i \in OtherIds : (Matching(Stations, i) = {}) <=> (target_defs[i].name = Buff)
    /\ Len(df_new) = 5
    /\ console[Len(console)] = Msg("Warning: not found", Buff)

\* C6: the station of a target other than Raymer is the first record, in
\* payload order, whose lower-cased display name contains one of the target's
\* keywords; the metrics of the row are that record's and no later record's;
\* "RENDEZVOUS BOWL Upper" matches RV_Bowl; a record with no display_name
\* matches no target.
C6_FirstMatch ==
    (pc = "returned" /\ HasData(data)) =>
        /\ \A i \in OtherIds :
              LET M == Matching(Stations, i)
              IN  /\ Cardinality(RowsOf(df_new, i)) = (IF M = {} THEN 0 ELSE 1)
                  /\ \A k \in RowsOf(df_new, i) : \A c \in 1 .. Len(MetricSource) :
                        df_new[k][MetricSource[c][1]]
                            = GetDefault(Stations[Least(M)], MetricSource[c][2], EmptyStr)
        /\ (\E k \in 1 .. Len(Stations) :
                /\ "display_name" \in DOMAIN Stations[k]
                /\ Stations[k]["display_name"] = PyStr(NameRendezvous))
              => \E k \in 1 .. Len(df_new) : df_new[k][Location] = PyStr(RV_Bowl)
        /\ (\A k \in 1 .. Len(Stations) : "display_name" \notin DOMAIN Stations[k])
              => \A i \in OtherIds : RowsOf(df_new, i) = {}

\* C6 witness: two stations match Summit, with different metrics, and the row
\* holds the metrics of the first
C6_Witness ==
    /\ pc = "returned" /\ HasData(data)
    /\ Len(Stations) = 2
    /\ Matching(Stations, 1) = {1, 2}
    /\ Get(Stations[1], "newsnow") = PyInt(11) /\ Get(Stations[2], "newsnow") = PyInt(1)
    /\ df_new[1][Location] = PyStr(Summit)
    /\ df_new[1][NewSno] = PyInt(11)

\* the locations of the rows, in row order
Locations(df) == [k \in 1 .. Len(df) |-> df[k][Location].v]

TargetIndex(name) == CHOOSE i \in TargetIds : target_defs[i].name = name

\* C9: the locations of the rows are a subsequence of (Summit, RV_Bowl,
\* Raymer, MidMtn, Buff, Base): at most one row per target, at most 6 rows,
\* in an order that does not depend on the order of the payload; all rows of
\* a call carry the same ProphixDate and the same Date.
C9_FixedOrder ==
    (pc = "returned") =>
        /\ Len(df_new) <= 6
        /\ \A k \in 1 .. Len(df_new) :
              \E i \in TargetIds : df_new[k][Location] = PyStr(target_defs[i].name)
        /\ \A k, m \in 1 .. Len(df_new) :
              (k < m) => TargetIndex(df_new[k][Location].v) < TargetIndex(df_new[m][Location].v)
        /\ \A k \in 1 .. Len(df_new) :
              /\ df_new[k][ProphixDate] = df_new[1][ProphixDate]
              /\ df_new[k][Date] = df_new[1][Date]
        /\ HasData(data) =>
              Locations(df_new)
                  = Locations(process_data(PyDict("data" :> Reverse(Stations)), date_obj).df)

\* C9 witness: the payload lists the stations from Base up to Summit, and the
\* six rows go from Summit down to Base
C9_Witness ==
    /\ pc = "returned" /\ HasData(data)
    /\ Stations = Reverse(FullPayload)
    /\ Locations(df_new) = <<Summit, RV_Bowl, Raymer, MidMtn, Buff, Base>>

\* the first station whose lower-cased name contains the keyword, or {}
FirstNamed(st, keyword) ==
    LET M == {k \in 1 .. Len(st) : NameContains(st[k], keyword)}
    IN  IF M = {} THEN EmptyDict ELSE st[Least(M)]

\* a value is empty: there is none, or it is the empty string
IsEmpty(x) == x = PyNone \/ x = EmptyStr

\* C3: the merged Raymer record takes maxtemp/mintemp from the first station
\* named "raymer 9,360" and avewindspd/maxgust/ttlwindmiles from the first
\* named "raymer wind"; newsnow, depth and ttlsnowfall take the temperature
\* source's value when it is non-empty, otherwise the wind source's, and are
\* empty when both are; for every value, the number 0 included.
C3_RaymerMerge ==
    (pc = "returned" /\ HasData(data)) =>
        LET temp == FirstNamed(Stations, kw_raymer_temp)
            wind == FirstNamed(Stations, kw_raymer_wind)
            merged == raymer_merged(Stations)
        IN  /\ \A k \in {"maxtemp", "mintemp"} : merged[k] = Get(temp, k)
            /\ \A k \in {"avewindspd", "maxgust", "ttlwindmiles"} : merged[k] = Get(wind, k)
            /\ \A k \in {"newsnow", "depth", "ttlsnowfall"} :
                  /\ merged[k] = IF ~IsEmpty(Get(temp, k)) THEN Get(temp, k) ELSE Get(wind, k)
                  /\ (IsEmpty(Get(temp, k)) /\ IsEmpty(Get(wind, k))) => IsEmpty(merged[k])

\* the keys of the merged Raymer record and where each comes from
TempKeys == {"maxtemp", "mintemp"}
WindKeys == {"avewindspd", "maxgust", "ttlwindmiles"}

\* the metric is absent from the record (or records) the row of target i is
\* made from
SourceAbsent(st, i, key) ==
    IF i = RaymerId
    THEN LET temp == FirstNamed(st, kw_raymer_temp)
             wind == FirstNamed(st, kw_raymer_wind)
         IN  IF key \in TempKeys THEN key \notin DOMAIN temp
             ELSE IF key \in WindKeys THEN key \notin DOMAIN wind
             ELSE key \notin DOMAIN temp /\ key \notin DOMAIN wind
    ELSE key \notin DOMAIN st[Least(Matching(st, i))]

\* C4: in every row, of each of the six targets, the synthesized Raymer row
\* included, a metric whose source field is absent holds the empty string,
\* never None.
C4_AbsentIsEmptyString ==
    (pc = "returned" /\ HasData(data)) =>
        \A i \in TargetIds : \A k \in RowsOf(df_new, i) : \A c \in 1 .. Len(MetricSource) :
            SourceAbsent(Stations, i, MetricSource[c][2])
                => df_new[k][MetricSource[c][1]] = EmptyStr

(***************************************************************************)
(* Statements about the runs of main.                                      *)
(***************************************************************************)
IsPrefix(a, b) == Len(a) <= Len(b) /\ \A i \in 1 .. Len(a) : a[i] = b[i]

HeaderLines(lines) == {i \in 1 .. Len(lines) : lines[i] = header_line}

\* C2: starting from no table, the first run that writes produces the header
\* line and then its N data lines, and every later run that writes appends
\* its data lines only: a table that exists holds exactly one header line,
\* its first, and every step leaves what the table held as a prefix.
C2_HeaderOnce ==
    /\ [](IF fileExists THEN HeaderLines(table) = {1} ELSE table = <<>>)
    /\ [][IsPrefix(table, table')]_vars
    /\ [][(table' # table) =>
             /\ pc = "to_csv"
             /\ Len(df_new') > 0
             /\ table' = (IF fileExists THEN table ELSE <<header_line>>) \o csv_lines(df_new')]_vars

\* C2 witness: the second run has appended, to the header and the row of the
\* first, the same row once more
C2_Witness ==
    /\ pc = "done" /\ runs = 2
    /\ Len(table0) = 2 /\ Len(table) = 3
    /\ table[1] = header_line
    /\ table[3] = table[2]

\* C7: for a payload without the key `data`, null and the empty object
\* included, process_data returns no row and raises nothing, and the run of
\* main with that payload appends nothing to the table.
C7_NoDataKey ==
    (pc \in {"got", "to_csv", "done", "crashed"} /\ ~HasData(data)) =>
        /\ process_data(data, date_obj).df = <<>>
        /\ process_data(data, date_obj).raised = ""
        /\ pc \in {"got", "done"}
        /\ df_new = <<>>
        /\ table = table0

\* C7 witness: a run whose payload is an object without `data` has ended, after
\* a run that wrote the table
C7_Witness ==
    /\ pc = "done"
    /\ data.t = "dict" /\ DOMAIN data.v = {"error"}
    /\ Len(table) > 0
    /\ console[Len(console)].kind \in {"No data rows matched the target stations.", "Logging failed"}

ErrorKinds ==
    {"Error fetching data",
     "Invalid JSON structure (missing 'data' key).",
     "No data rows matched the target stations.",
     "API request failed (Check internet or URL).",
     "ERROR: Could not write. Is the Excel file open?"}

Printed(kind) == \E k \in 1 .. Len(console) : console[k].kind = kind

\* a handled error has occurred in the run: the fetch failed, the payload has
\* no `data`, or the table could not be written
HandledError ==
    \/ Printed("Error fetching data")
    \/ pc \in {"got", "done"} /\ ~HasData(data)
    \/ Printed("ERROR: Could not write. Is the Excel file open?")

\* C8: in a run with a handled error the error is recorded on the console and
\* in the log file (unless the log cannot be written, which is printed), a
\* failed fetch returns no payload and no date, the run ends normally and the
\* table is left as it was.
C8_HandledErrorsRecorded ==
    /\ pc # "crashed"
    /\ Printed("Error fetching data") => (data = PyNone /\ date_obj = PyNone)
    /\ (pc = "done" /\ HandledError) =>
          /\ \E k \in 1 .. Len(console) : console[k].kind \in ErrorKinds
          /\ IF logWritable
             THEN Len(log) > 0 /\ log[Len(log)].kind \in ErrorKinds
             ELSE Printed("Logging failed")
          /\ table = table0

\* the Raymer row has no value in any metric
NoMetric(row) == \A c \in 1 .. Len(MetricSource) : IsEmpty(row[MetricSource[c][1]])

\* C10: with the key `data` in the payload process_data emits exactly one
\* Raymer row, made from the synthesized record, also for an empty station
\* list or one without a Raymer station (the metrics of the row are then
\* empty); so df_new is not empty, and main reports "No data rows matched the
\* target stations" only when the key is missing.
C10_RaymerAlways ==
    /\ (pc \in {"to_csv", "done"} /\ HasData(data)) =>
          /\ Len(df_new) > 0
          /\ Cardinality(RowsOf(df_new, RaymerId)) = 1
          /\ \A k \in RowsOf(df_new, RaymerId) :
                /\ \A c \in 1 .. Len(MetricSource) :
                      df_new[k][MetricSource[c][1]]
                          = raymer_merged(Stations)[MetricSource[c][2]]
                /\ (/\ DOMAIN FirstNamed(Stations, kw_raymer_temp) = {}
                    /\ DOMAIN FirstNamed(Stations, kw_raymer_wind) = {})
                      => NoMetric(df_new[k])
    /\ Printed("No data rows matched the target stations.") => ~HasData(data)
    /\ HasData(data) => pc # "crashed"

\* C10 witness: the station list is empty and the run has written the header
\* and the one Raymer row
C10_Witness ==
    /\ pc = "done"
    /\ HasData(data) /\ Stations = <<>>
    /\ Len(table) = 2
    /\ table[2][3] = PyStr(Raymer)
    /\ NoMetric(df_new[1])

====
